---- MODULE Spec2Model ----
(***************************************************************************)
(* Model of esbuild-foundry-plugin: the path normalizer, the two traversal *)
(* classifiers and the import resolution engine (src/src/onResolve.ts,     *)
(* src/src/manifestSchema.ts).                                             *)
(*                                                                         *)
(* A string is a sequence of atoms.  An atom is one of the characters      *)
(* ".", "/", "\\", or a run of ordinary characters (letters, digits, "-")  *)
(* that no operation of the code looks into ("a", "lorem", "module", ...). *)
(* The atoms are chosen so that every string has one spelling only, hence  *)
(* string equality, concatenation and startsWith are those of sequences.   *)
(***************************************************************************)
EXTENDS Naturals, Integers, Sequences, FiniteSets, TLC

VARIABLES
    platform,     \* the host: selects what nativePath is, "posix" or "win32"
    rawPath,      \* classifier bench: the raw path under test
    stage,        \* classifier bench: which functions have been applied
    coarse,       \* traversesUpDirectoryRegex.test(rawPath)
    once,         \* normalize(rawPath)
    twice,        \* normalize(normalize(rawPath))
    precise,      \* normalizedTraversesUpRegex.test(normalize(rawPath))
    options,      \* the Options given to foundryPlugin
    pluginData,   \* the plugin instance's PluginData
    args,         \* the OnResolveArgs of the resolution request
    result,       \* what the resolve callback returned, or that it threw
    handled,      \* the callback that handled the request, "none" before
    onResolveCache, \* pluginData.onResolveCache: importer -> importPath -> result
    slots,        \* the calls of a cachedResolve wrapper that are under way
    build,        \* the number of the build that is running
    begun,        \* how many resolve requests the plugin instance has taken
    completed,    \* per pair, the decision first returned in the running build
    manifestFile, \* the parsed contents of <projectRoot>/<packageType>.json
    resolvable,   \* the import paths that build.resolve resolves without error
    runs,         \* per call of setupManifest, the objects normalizeManifest made
    cachedManifest, \* pluginData.cachedManifest: the call whose objects it holds
    metafile,     \* result.metafile.outputs: output path -> its input paths
    ends,         \* per call of createManifest, its objects and what it has done
    unhandled     \* what became of a rejected promise that nothing awaits

benchVars == <<rawPath, stage, coarse, once, twice, precise>>
resolveVars == <<options, pluginData, args, result, handled>>
cacheVars == <<onResolveCache, slots, build, begun, completed>>
manifestVars == <<manifestFile, resolvable, runs, cachedManifest>>
endVars == <<metafile, ends, unhandled>>
vars == <<platform, benchVars, resolveVars, cacheVars, manifestVars, endVars>>

Unset == "unset"

Platforms == {"posix", "win32"}

-----------------------------------------------------------------------------
(* Strings                                                                 *)

Dot == "."
Slash == "/"
Backslash == "\\"

\* [/\\] of the regular expressions, and win32's isPathSeparator
IsAnySep(c) == c = Slash \/ c = Backslash

\* isPosixPathSeparator
IsPosixSep(c) == c = Slash

\* nativePath.sep
NativeSep == IF platform = "win32" THEN Backslash ELSE Slash

DotDot == <<Dot, Dot>>

\* String.prototype.startsWith
StartsWith(s, prefix) ==
    /\ Len(prefix) <= Len(s)
    /\ SubSeq(s, 1, Len(prefix)) = prefix

\* s.slice(from) with a 0-based index
SliceFrom(s, from) == SubSeq(s, from + 1, Len(s))

\* s.slice(from, to) with 0-based indices
Slice(s, from, to) == SubSeq(s, from + 1, to)

\* The segments of s between separators, the empty ones included
\* (String.prototype.split with a separator class).
RECURSIVE SplitFrom(_, _, _, _)
SplitFrom(s, i, cur, sepAny) ==
    IF i > Len(s) THEN <<cur>>
    ELSE IF (IF sepAny THEN IsAnySep(s[i]) ELSE IsPosixSep(s[i]))
         THEN <<cur>> \o SplitFrom(s, i + 1, <<>>, sepAny)
         ELSE SplitFrom(s, i + 1, Append(cur, s[i]), sepAny)

Split(s, sepAny) == SplitFrom(s, 1, <<>>, sepAny)

\* Array.prototype.join
RECURSIVE JoinWith(_, _)
JoinWith(segs, sep) ==
    IF Len(segs) = 0 THEN <<>>
    ELSE IF Len(segs) = 1 THEN segs[1]
    ELSE segs[1] \o <<sep>> \o JoinWith(Tail(segs), sep)

\* s.split(from).join(to) for one-character strings
RECURSIVE ReplaceAll(_, _, _)
ReplaceAll(s, from, to) ==
    IF Len(s) = 0 THEN <<>>
    ELSE <<IF s[1] = from THEN to ELSE s[1]>> \o ReplaceAll(Tail(s), from, to)

-----------------------------------------------------------------------------
(* Node's path module, as onResolve.ts uses it                             *)

\* normalizeString: one step of its loop, on a whole segment.  res is the
\* list of segments kept so far.
NormalizeStep(res, seg, allowAboveRoot) ==
    IF seg = <<>> \/ seg = <<Dot>> THEN res
    ELSE IF seg = DotDot
         THEN IF Len(res) > 0 /\ res[Len(res)] # DotDot
              THEN SubSeq(res, 1, Len(res) - 1)
              ELSE IF allowAboveRoot THEN Append(res, DotDot) ELSE res
         ELSE Append(res, seg)

RECURSIVE NormalizeSegs(_, _, _)
NormalizeSegs(res, segs, allowAboveRoot) ==
    IF Len(segs) = 0 THEN res
    ELSE NormalizeSegs(NormalizeStep(res, segs[1], allowAboveRoot),
                       Tail(segs), allowAboveRoot)

\* normalizeString(path, allowAboveRoot, separator, isPathSeparator)
NormalizeString(path, allowAboveRoot, sepAny) ==
    JoinWith(NormalizeSegs(<<>>, Split(path, sepAny), allowAboveRoot),
             IF sepAny THEN Backslash ELSE Slash)

\* path.posix.normalize, once normalizeString has made the body
PosixRebuild(isAbsolute, trailingSeparator, body) ==
    IF Len(body) = 0
    THEN IF isAbsolute THEN <<Slash>>
         ELSE IF trailingSeparator THEN <<Dot, Slash>> ELSE <<Dot>>
    ELSE (IF isAbsolute THEN <<Slash>> ELSE <<>>)
         \o body
         \o (IF trailingSeparator THEN <<Slash>> ELSE <<>>)

\* path.posix.normalize
PosixNormalize(path) ==
    IF Len(path) = 0 THEN <<Dot>>
    ELSE PosixRebuild(path[1] = Slash, path[Len(path)] = Slash,
                      NormalizeString(path, path[1] # Slash, FALSE))

\* The first index j >= from (0-based) at which path[j] is a separator
\* (wantSep = FALSE: skips a run of non-separators) or is not one
\* (wantSep = TRUE: skips a run of separators); Len(path) when there is none.
RECURSIVE SkipRun(_, _, _)
SkipRun(path, from, wantSep) ==
    IF from >= Len(path) THEN Len(path)
    ELSE IF IsAnySep(path[from + 1]) = wantSep
         THEN SkipRun(path, from + 1, wantSep)
         ELSE from

\* The root that path.win32.normalize matches at the start of a path of two
\* or more characters: where it ends (rootEnd), the UNC device when there
\* is one, and whether the path is the UNC root alone.  The model's strings
\* hold no ":", so no drive letter root arises.
NoRoot ==
    [rootEnd |-> 0, device |-> <<>>, hasDevice |-> FALSE,
     isAbsolute |-> FALSE, rootOnly |-> FALSE]

AbsoluteNoRoot == [NoRoot EXCEPT !.isAbsolute = TRUE]

\* \\firstPart\
UncPrefix(path, j1) ==
    <<Backslash, Backslash>> \o Slice(path, 2, j1) \o <<Backslash>>

\* j1, j2, j3: the ends of the server name, of the separators after it and
\* of the share name
Win32UncShare(path, j1, j2, j3) ==
    IF j3 = Len(path)
    THEN [AbsoluteNoRoot EXCEPT
            !.rootOnly = TRUE, !.hasDevice = TRUE,
            !.device = UncPrefix(path, j1) \o SliceFrom(path, j2) \o <<Backslash>>]
    ELSE [AbsoluteNoRoot EXCEPT
            !.rootEnd = j3, !.hasDevice = TRUE,
            !.device = UncPrefix(path, j1) \o Slice(path, j2, j3)]

Win32UncServer(path, j1, j2) ==
    IF j2 < Len(path) /\ j2 # j1
    THEN Win32UncShare(path, j1, j2, SkipRun(path, j2, FALSE))
    ELSE AbsoluteNoRoot

Win32Unc(path, j1) ==
    IF j1 < Len(path) /\ j1 # 2
    THEN Win32UncServer(path, j1, SkipRun(path, j1, TRUE))
    ELSE AbsoluteNoRoot

Win32Root(path) ==
    IF ~IsAnySep(path[1]) THEN NoRoot
    ELSE IF ~IsAnySep(path[2]) THEN [AbsoluteNoRoot EXCEPT !.rootEnd = 1]
    ELSE Win32Unc(path, SkipRun(path, 2, FALSE))

\* path.win32.normalize, once the root is matched and the rest normalized
Win32Emit(root, tail) ==
    IF ~root.hasDevice
    THEN (IF root.isAbsolute THEN <<Backslash>> ELSE <<>>) \o tail
    ELSE root.device \o (IF root.isAbsolute THEN <<Backslash>> ELSE <<>>) \o tail

Win32Tail(root, body, trailingSeparator) ==
    IF Len(body) = 0
    THEN IF root.isAbsolute THEN <<>>
         ELSE IF trailingSeparator THEN <<Dot, Backslash>> ELSE <<Dot>>
    ELSE IF trailingSeparator THEN Append(body, Backslash) ELSE body

Win32Rebuild(path, root) ==
    IF root.rootOnly THEN root.device
    ELSE Win32Emit(root,
             Win32Tail(root,
                 IF root.rootEnd < Len(path)
                 THEN NormalizeString(SliceFrom(path, root.rootEnd),
                                      ~root.isAbsolute, TRUE)
                 ELSE <<>>,
                 IsAnySep(path[Len(path)])))

\* path.win32.normalize
Win32Normalize(path) ==
    IF Len(path) = 0 THEN <<Dot>>
    ELSE IF Len(path) = 1
         THEN (IF IsPosixSep(path[1]) THEN <<Backslash>> ELSE path)
    ELSE Win32Rebuild(path, Win32Root(path))

\* nativePath.normalize
NativeNormalize(path) ==
    IF platform = "win32" THEN Win32Normalize(path) ELSE PosixNormalize(path)

\* A normalize that C3 tells apart from the code's: it leaves the native
\* separators in place
NormalizeKeepingSeparators(p) == NativeNormalize(p)

\* normalize of onResolve.ts: nativePath.normalize, then every native
\* separator replaced by "/"
normalize(p) == ReplaceAll(NativeNormalize(p), NativeSep, Slash)

-----------------------------------------------------------------------------
(* The traversal classifiers                                               *)

\* Offsets are 0-based: offset i stands before the character s[i + 1].

\* [/\\]+ from offset i: the offsets at which a match can end
SepRunEnds(s, i) ==
    {j \in (i + 1)..Len(s) : \A k \in (i + 1)..j : IsAnySep(s[k])}

\* [^/\\]+ from offset i
NonSepRunEnds(s, i) ==
    {j \in (i + 1)..Len(s) : \A k \in (i + 1)..j : ~IsAnySep(s[k])}

\* \. from offset i
DotEnds(s, i) == IF i < Len(s) /\ s[i + 1] = Dot THEN {i + 1} ELSE {}

\* \.\. from offset i
DotDotEnds(s, i) == UNION {DotEnds(s, j) : j \in DotEnds(s, i)}

\* (\.[/\\]+), the first alternative of the repeated group
CurrentDirEnds(s, i) == UNION {SepRunEnds(s, j) : j \in DotEnds(s, i)}

\* [^/\\]+[/\\]+, one round of the inner repetition
SegmentEnds(s, i) == UNION {SepRunEnds(s, j) : j \in NonSepRunEnds(s, i)}

\* ([^/\\]+[/\\]+)+? from the offsets in todo: one or more rounds
RECURSIVE SegmentsEnds(_, _, _)
SegmentsEnds(s, todo, found) ==
    LET next == UNION {SegmentEnds(s, i) : i \in todo} \ found
    IN  IF next = {} THEN found ELSE SegmentsEnds(s, next, found \cup next)

\* ([^/\\]+[/\\]+)+?\.\.[/\\]+, the second alternative of the repeated group
CancelledEnds(s, i) ==
    UNION {UNION {SepRunEnds(s, k) : k \in DotDotEnds(s, j)} :
           j \in SegmentsEnds(s, {i}, {})}

\* (...)* from the offsets in todo: zero or more rounds of the group
RECURSIVE GroupStarEnds(_, _, _)
GroupStarEnds(s, todo, found) ==
    LET next == UNION {CurrentDirEnds(s, i) \cup CancelledEnds(s, i) : i \in todo}
                \ found
    IN  IF next = {} THEN found ELSE GroupStarEnds(s, next, found \cup next)

\* \.\.([/\\]+|$) at offset i
ParentDirAt(s, i) ==
    \E j \in DotDotEnds(s, i) : j = Len(s) \/ SepRunEnds(s, j) # {}

\* A weaker filter that C1 tells apart from the regex: it sees a ".."
\* segment at the very start only, not one left by "." or "name/.."
LeadingParentDirOnly(s) == ParentDirAt(s, 0)

\* A classifier that does not ask for a separator or the end after the
\* final "..": /^(((\.[/\\]+)|([^/\\]+[/\\]+)+?\.\.[/\\]+)*\.\.)/
ParentDirWithoutBoundary(s) ==
    \E i \in GroupStarEnds(s, {0}, {0}) : DotDotEnds(s, i) # {}

\* traversesUpDirectoryRegex.test(s):
\* /^(((\.[/\\]+)|([^/\\]+[/\\]+)+?\.\.[/\\]+)*\.\.([/\\]+|$))/
traversesUpDirectoryRegex(s) ==
    \E i \in GroupStarEnds(s, {0}, {0}) : ParentDirAt(s, i)

\* normalizedTraversesUpRegex.test(s): /\.\.(\/+|$)/, which is not anchored
normalizedTraversesUpRegex(s) ==
    \E i \in 0..Len(s) :
        \E j \in DotDotEnds(s, i) : j = Len(s) \/ s[j + 1] = Slash

-----------------------------------------------------------------------------
(* More of Node's path module                                              *)

\* process.cwd(): where relative paths are resolved from
Cwd == <<Slash, "w">>

IsAbsolute(p, sepAny) ==
    Len(p) > 0 /\ (IF sepAny THEN IsAnySep(p[1]) ELSE IsPosixSep(p[1]))

\* path.posix.join
\* joined += `/${arg}` for the arguments that are not empty
RECURSIVE JoinNonEmpty(_, _)
JoinNonEmpty(joined, parts) ==
    IF Len(parts) = 0 THEN joined
    ELSE JoinNonEmpty(IF Len(parts[1]) = 0 THEN joined
                      ELSE IF Len(joined) = 0 THEN parts[1]
                      ELSE joined \o <<Slash>> \o parts[1],
                      Tail(parts))

NormalizeJoined(joined) ==
    IF Len(joined) = 0 THEN <<Dot>> ELSE PosixNormalize(joined)

PosixJoin(parts) == NormalizeJoined(JoinNonEmpty(<<>>, parts))

\* path.resolve(p), as the list of the segments below the root.  Paths are
\* rooted at one separator (on win32: on the drive of the working
\* directory); a relative path is resolved from the working directory.
ResolvedSegs(p, sepAny) ==
    NormalizeSegs(<<>>,
                  Split(IF IsAbsolute(p, sepAny) THEN p
                        ELSE Cwd \o <<Slash>> \o p, sepAny),
                  FALSE)

RECURSIVE CommonLen(_, _)
CommonLen(f, t) ==
    IF Len(f) = 0 \/ Len(t) = 0 \/ f[1] # t[1] THEN 0
    ELSE 1 + CommonLen(Tail(f), Tail(t))

\* path.relative on resolved paths: ".." for every segment of `from` below
\* the common directory, then the segments of `to` below it
UpThenDown(f, t, c) ==
    [i \in 1..(Len(f) - c) |-> DotDot] \o SubSeq(t, c + 1, Len(t))

RelativeSegs(f, t) == UpThenDown(f, t, CommonLen(f, t))

\* path.posix.relative(from, to)
PosixRelative(from, to) ==
    IF from = to THEN <<>>
    ELSE JoinWith(RelativeSegs(ResolvedSegs(from, FALSE),
                               ResolvedSegs(to, FALSE)), Slash)

\* nativePath.relative(from, to)
NativeRelative(from, to) ==
    IF from = to THEN <<>>
    ELSE JoinWith(RelativeSegs(ResolvedSegs(from, platform = "win32"),
                               ResolvedSegs(to, platform = "win32")),
                  NativeSep)

\* The offset at which the last segment of p starts and the offset at which
\* it ends, trailing separators skipped, as path.parse scans for them from
\* the end of p down to the offset `start` just after the root.
RECURSIVE ParseEnd(_, _, _, _)
ParseEnd(p, i, start, sepAny) ==
    IF i < start THEN 0
    ELSE IF (IF sepAny THEN IsAnySep(p[i + 1]) ELSE IsPosixSep(p[i + 1]))
         THEN ParseEnd(p, i - 1, start, sepAny)
         ELSE i + 1

RECURSIVE ParseStartPart(_, _, _, _)
ParseStartPart(p, i, start, sepAny) ==
    IF i < start THEN 0
    ELSE IF (IF sepAny THEN IsAnySep(p[i + 1]) ELSE IsPosixSep(p[i + 1]))
         THEN i + 1
         ELSE ParseStartPart(p, i - 1, start, sepAny)

\* path.parse(p), its `dir` and `base`, for a path that is relative or
\* rooted at one separator
ParsedParts(p, isAbsolute, startPart, end) ==
    [base |-> IF end = 0 THEN <<>>
              ELSE Slice(p, IF startPart = 0 /\ isAbsolute THEN 1 ELSE startPart,
                         end),
     dir |-> IF startPart > 0 THEN Slice(p, 0, startPart - 1)
             ELSE IF isAbsolute THEN SubSeq(p, 1, 1) ELSE <<>>]

ParseFromEnd(p, isAbsolute, start, end, sepAny) ==
    ParsedParts(p, isAbsolute,
                IF end = 0 THEN 0 ELSE ParseStartPart(p, end - 1, start, sepAny),
                end)

ParseRooted(p, isAbsolute, start, sepAny) ==
    ParseFromEnd(p, isAbsolute, start,
                 ParseEnd(p, Len(p) - 1, start, sepAny), sepAny)

PathParse(p, sepAny) ==
    ParseRooted(p, IsAbsolute(p, sepAny),
                IF IsAbsolute(p, sepAny) THEN 1 ELSE 0, sepAny)

\* nativePath.parse
NativeParse(p) == PathParse(p, platform = "win32")

-----------------------------------------------------------------------------
(* pluginData.ts and index.ts: the plugin's configuration                  *)

PackageTypes == {"module", "system"}

\* A configuration that C10 tells apart from the code's: root imports are
\* rewritten unless importData turns that off
getPluginDataRewriting(opts) ==
    [packageType |-> opts.packageType,
     packageName |-> opts.packageName,
     pluginName |-> "foundryResolve",
     projectRoot |-> <<>>,
     imports |-> [rewriteRootImports |->
                      IF "importData" \in DOMAIN opts
                      THEN opts.importData.rewriteRootImports
                      ELSE TRUE]]

\* getPluginData(options), the fields the resolver reads; projectRoot is
\* still empty
getPluginData(opts) ==
    [packageType |-> opts.packageType,
     packageName |-> opts.packageName,
     pluginName |-> "foundryResolve",
     projectRoot |-> <<>>,
     imports |-> [rewriteRootImports |->
                      IF "importData" \in DOMAIN opts
                      THEN opts.importData.rewriteRootImports
                      ELSE FALSE]]

\* configureOptions: pluginData.projectRoot = options.outbase
configureOptions(pd, buildOptions) ==
    [pd EXCEPT !.projectRoot = buildOptions.outbase]

-----------------------------------------------------------------------------
(* onResolve.ts: the import resolution engine                              *)

Undefined == [returns |-> "undefined"]

\* getFoundryImport(args, foundryRootRelative)
getFoundryImport(a, foundryRootRelative) ==
    IF a.kind = "import-statement" \/ a.kind = "dynamic-import"
    THEN [namespace |-> "foundry-import",
          pluginData |-> [foundryImport |-> foundryRootRelative]]
    ELSE [path |-> a.path, external |-> TRUE]

\* What getImportData returns, or that it throws
ImportData(importerDir, importPath) ==
    [throws |-> normalizedTraversesUpRegex(importerDir),
     importerDir |-> importerDir,
     importPath |-> importPath]

\* getImportData(args, pluginData): importerDir and importPath, or the
\* error thrown for an importer directory outside of the project root
getImportData(a, pd) ==
    ImportData(normalize(NativeRelative(pd.projectRoot, a.resolveDir)),
               normalize(a.path))

OutsideRootError(a, pd) ==
    [throws |-> "Error",
     message |-> "Got an importer directory which lies outside of the configured project root",
     resolveDir |-> a.resolveDir,
     projectRoot |-> pd.projectRoot]

\* path.join(`${pluginData.packageType}s`, pluginData.packageName)
packagePath(pd) == PosixJoin(<<<<pd.packageType, "s">>, pd.packageName>>)

\* path.join(path.join(packagePath, importerDir), importPath)
resolvesTo(pkg, importerDir, importPath) ==
    PosixJoin(<<PosixJoin(<<pkg, importerDir>>), importPath>>)

\* onResolveTraversesUp from line 74: the import escapes the project root
\* and would resolve to `target` in Foundry
EscapingImport(pd, a, pkg, target) ==
    IF StartsWith(target, pkg)
    THEN [path |-> PosixJoin(<<pd.projectRoot, PosixRelative(target, pkg)>>),
          namespace |-> "file"]
    ELSE getFoundryImport(a, PosixJoin(<<target>>))

\* onResolveTraversesUp from line 61
ResolveInFoundry(pd, a, data, pkg) ==
    EscapingImport(pd, a, pkg, resolvesTo(pkg, data.importerDir, data.importPath))

\* A resolver that C6 tells apart from the code's: it does not test the
\* joined path before resolving in Foundry
TraversesUpWithoutJoinTest(pd, a, data) ==
    IF data.throws THEN OutsideRootError(a, pd)
    ELSE IF ~normalizedTraversesUpRegex(data.importPath) THEN Undefined
    ELSE ResolveInFoundry(pd, a, data, packagePath(pd))

\* onResolveTraversesUp from line 45, with what getImportData returned
TraversesUpWith(pd, a, data) ==
    IF data.throws THEN OutsideRootError(a, pd)
    ELSE IF ~normalizedTraversesUpRegex(data.importPath) THEN Undefined
    ELSE IF ~normalizedTraversesUpRegex(
                PosixJoin(<<data.importerDir, data.importPath>>))
         THEN Undefined
    ELSE ResolveInFoundry(pd, a, data, packagePath(pd))

\* onResolveTraversesUp(pluginData, args)
onResolveTraversesUp(pd, a) == TraversesUpWith(pd, a, getImportData(a, pd))

\* The error result of lines 116-124; the detail is the code's text without
\* the backquotes around options.imports.rewriteRootImports
RewriteDisabledError(pd) ==
    [errors |-> <<[pluginName |-> pd.pluginName,
                   text |-> "Rewriting root imports is not enabled!",
                   detail |-> "Consider setting options.imports.rewriteRootImports to true in the plugin configuration if you would like root imports to be rewritten as relative imports."]>>]

ModuleJson == <<"module", Dot, "json">>

IsProjectManifest(pd, a, parsed) ==
    /\ a.kind = "entry-point"
    /\ parsed.base = ModuleJson
    /\ parsed.dir = pd.projectRoot

\* The entry point that onResolveAbsolute leaves to default resolution
IsManifestEntryPoint(pd, a) ==
    IsProjectManifest(pd, a, NativeParse(normalize(a.path)))

\* onResolveAbsolute from line 113, with what getImportData returned
AbsoluteWith(pd, a, data) ==
    IF data.throws THEN OutsideRootError(a, pd)
    ELSE IF ~pd.imports.rewriteRootImports THEN RewriteDisabledError(pd)
    ELSE getFoundryImport(a, PosixJoin(<<<<Dot>>, data.importPath>>))

\* onResolveAbsolute(pluginData, args)
onResolveAbsolute(pd, a) ==
    IF IsManifestEntryPoint(pd, a) THEN Undefined
    ELSE AbsoluteWith(pd, a, getImportData(a, pd))

-----------------------------------------------------------------------------
(* Classifier bench: the pure functions applied to every short raw path    *)

MaxLen == 7

BenchAtoms == {Dot, Slash, Backslash, "a"}

RawPaths == UNION {[1..n -> BenchAtoms] : n \in 0..MaxLen}

BenchInit ==
    /\ platform \in Platforms
    /\ rawPath \in RawPaths
    /\ stage = "input"
    /\ coarse = Unset
    /\ once = Unset
    /\ twice = Unset
    /\ precise = Unset
    /\ options = Unset
    /\ pluginData = Unset
    /\ args = Unset
    /\ result = Unset
    /\ handled = "none"
    /\ onResolveCache = <<>>
    /\ slots = <<>>
    /\ build = 1
    /\ begun = 0
    /\ completed = <<>>
    /\ manifestFile = Unset
    /\ resolvable = {}
    /\ runs = <<>>
    /\ cachedManifest = 0
    /\ metafile = <<>>
    /\ ends = <<>>
    /\ unhandled = "none"

\* build.onResolve({ filter: traversesUpDirectoryRegex }, ...): the filter
\* is tested on the raw path
TestCoarse ==
    /\ stage = "input"
    /\ coarse' = traversesUpDirectoryRegex(rawPath)
    /\ stage' = "filtered"
    /\ UNCHANGED <<platform, rawPath, once, twice, precise, resolveVars, cacheVars, manifestVars, endVars>>

\* const importPath = normalize(args.path)
Normalize ==
    /\ stage = "filtered"
    /\ once' = normalize(rawPath)
    /\ stage' = "normalized"
    /\ UNCHANGED <<platform, rawPath, coarse, twice, precise, resolveVars, cacheVars, manifestVars, endVars>>

\* normalizedTraversesUpRegex.test(importPath)
TestPrecise ==
    /\ stage = "normalized"
    /\ precise' = normalizedTraversesUpRegex(once)
    /\ stage' = "classified"
    /\ UNCHANGED <<platform, rawPath, coarse, once, twice, resolveVars, cacheVars, manifestVars, endVars>>

\* the normalized form normalized again, as cachedResolve does with a path
\* that getImportData normalizes once more
NormalizeAgain ==
    /\ stage = "classified"
    /\ twice' = normalize(once)
    /\ stage' = "done"
    /\ UNCHANGED <<platform, rawPath, coarse, once, precise, resolveVars, cacheVars, manifestVars, endVars>>

BenchNext == TestCoarse \/ Normalize \/ TestPrecise \/ NormalizeAgain

SpecPath == BenchInit /\ [][BenchNext]_vars

-----------------------------------------------------------------------------
(* Resolution requests: one request to a freshly set up plugin             *)

MaxUp == 4
MaxSegs == 4

Lorem == <<"lorem">>
LoremExtra == <<"lorem", "-extra">>
BazJs == <<"baz", Dot, "js">>
SystemJson == <<"system", Dot, "json">>
Modules == <<"module", "s">>
Systems == <<"system", "s">>
Scripts == <<"scripts">>
Foo == <<"foo">>
BarJs == <<"bar", Dot, "js">>
\* a directory whose name merely ends in ".."
ADotDot == <<"a", Dot, Dot>>

\* options.outbase of the build
ProjectRoot == <<Slash, "p">>

AllOptions ==
    {[packageType |-> t, packageName |-> Lorem] : t \in PackageTypes}
    \cup {[packageType |-> t, packageName |-> Lorem,
           importData |-> [rewriteRootImports |-> b]] :
          t \in PackageTypes, b \in BOOLEAN}

\* esbuild's ImportKind: the kinds the code tells apart, and one other
Kinds == {"entry-point", "import-statement", "dynamic-import", "require-call"}

\* Importer directories: the project root, directories below it, and one
\* outside of it
ResolveDirs ==
    {ProjectRoot,
     ProjectRoot \o <<Slash>> \o Scripts,
     ProjectRoot \o <<Slash>> \o Scripts \o <<Slash>> \o Foo,
     ProjectRoot \o <<Slash>> \o ADotDot,
     <<Slash, "q">>}

\* What follows the leading "." and ".." segments of an import path
Tails ==
    {<<>>,
     <<BazJs>>,
     <<Lorem>>,
     <<Lorem, <<>>>>,
     <<Lorem, BazJs>>,
     <<LoremExtra, BazJs>>,
     <<Modules, Lorem, BazJs>>,
     <<Systems, Lorem, BazJs>>,
     <<Modules, LoremExtra, BazJs>>,
     <<Scripts, BazJs>>,
     <<ADotDot, BazJs>>,
     <<<<"a">>, <<"b">>, DotDot, DotDot>>}

Ups(k) == [i \in 1..k |-> DotDot]

\* "./"? then up to MaxUp ".." segments, then a tail
LeadingPaths ==
    {JoinWith(lead \o Ups(k) \o tail, Slash) :
        lead \in {<<>>, <<<<Dot>>>>}, k \in 0..MaxUp, tail \in Tails}

\* every path of up to MaxSegs segments ".", ".." and "a"
MixedPaths ==
    {JoinWith(segs, Slash) :
        segs \in UNION {[1..n -> {<<Dot>>, DotDot, <<"a">>}] : n \in 1..MaxSegs}}

\* paths written with the other separator
BackslashPaths ==
    {JoinWith(Ups(k) \o tail, Backslash) :
        k \in 1..3, tail \in {<<>>, <<BazJs>>, <<Lorem, BazJs>>}}

AbsolutePaths ==
    {<<sep>> \o JoinWith(tail, Slash) : sep \in {Slash, Backslash}, tail \in Tails}
    \cup {ProjectRoot \o <<Slash>> \o file : file \in {ModuleJson, SystemJson, BazJs}}
    \cup {<<Slash>> \o JoinWith(Ups(1) \o <<BazJs>>, Slash)}

ImportPaths ==
    (LeadingPaths \cup MixedPaths \cup BackslashPaths \cup AbsolutePaths) \ {<<>>}

\* The requests esbuild makes: an entry point has no importer
Requests ==
    {[path |-> p, resolveDir |-> d, kind |-> k,
      importer |-> IF k = "entry-point" THEN <<>>
                   ELSE d \o <<Slash>> \o BarJs] :
        p \in ImportPaths, d \in ResolveDirs, k \in Kinds}

\* foundryPlugin(options) and setup(build): getPluginData, configureOptions
ResolveInit ==
    /\ platform \in Platforms
    /\ options \in AllOptions
    /\ pluginData = configureOptions(getPluginData(options),
                                     [outbase |-> ProjectRoot])
    /\ args = Unset
    /\ result = Unset
    /\ handled = "none"
    /\ rawPath = <<>>
    /\ stage = "off"
    /\ coarse = Unset
    /\ once = Unset
    /\ twice = Unset
    /\ precise = Unset
    /\ onResolveCache = <<>>
    /\ slots = <<>>
    /\ build = 1
    /\ begun = 0
    /\ completed = <<>>
    /\ manifestFile = Unset
    /\ resolvable = {}
    /\ runs = <<>>
    /\ cachedManifest = 0
    /\ metafile = <<>>
    /\ ends = <<>>
    /\ unhandled = "none"

\* build.onResolve({ filter: traversesUpDirectoryRegex }, ...)
ResolveTraversesUp ==
    /\ handled = "none"
    /\ \E a \in Requests :
        /\ traversesUpDirectoryRegex(a.path)
        /\ args' = a
        /\ result' = onResolveTraversesUp(pluginData, a)
    /\ handled' = "onResolveTraversesUp"
    /\ UNCHANGED <<platform, options, pluginData, benchVars, cacheVars, manifestVars, endVars>>

\* build.onResolve({ filter: /^[/\\]/ }, ...)
ResolveAbsolute ==
    /\ handled = "none"
    /\ \E a \in Requests :
        /\ IsAnySep(a.path[1])
        /\ args' = a
        /\ result' = onResolveAbsolute(pluginData, a)
    /\ handled' = "onResolveAbsolute"
    /\ UNCHANGED <<platform, options, pluginData, benchVars, cacheVars, manifestVars, endVars>>

ResolveNext == ResolveTraversesUp \/ ResolveAbsolute

SpecResolve == ResolveInit /\ [][ResolveNext]_vars

-----------------------------------------------------------------------------
(* cachedResolve: the resolve callbacks of one plugin instance, build      *)
(* after build                                                             *)

MaxInFlight == 2
MaxRequests == 4
MaxBuilds == 2

SlotIds == 1..MaxInFlight

Idle == [pc |-> "idle"]

\* The requests of the file /p/scripts/bar.js: an import that escapes the
\* project root, as an import statement and as a require call, an import
\* that stays inside the root and an absolute import; and one request of a
\* file outside of the project root
InProject(p, k) ==
    [path |-> p,
     resolveDir |-> ProjectRoot \o <<Slash>> \o Scripts,
     kind |-> k,
     importer |-> ProjectRoot \o <<Slash>> \o Scripts \o <<Slash>> \o BarJs]

CachedRequests ==
    {InProject(JoinWith(<<DotDot, DotDot, BazJs>>, Slash), "import-statement"),
     InProject(JoinWith(<<DotDot, DotDot, BazJs>>, Slash), "require-call"),
     InProject(JoinWith(<<DotDot, BazJs>>, Slash), "import-statement"),
     InProject(<<Slash>> \o BazJs, "import-statement"),
     [path |-> JoinWith(<<DotDot, BazJs>>, Slash),
      resolveDir |-> <<Slash, "q">>,
      kind |-> "import-statement",
      importer |-> <<Slash, "q", Slash>> \o BarJs]}

\* The callback a request reaches: the filters of the two registrations
\* accept disjoint sets of paths
Callback(pd, a) ==
    IF traversesUpDirectoryRegex(a.path)
    THEN onResolveTraversesUp(pd, a)
    ELSE onResolveAbsolute(pd, a)

\* cachedResolve lines 20-21: the pair a request is cached under
CacheKey(a) ==
    [importer |-> normalize(a.importer), importPath |-> normalize(a.path)]

\* pluginData.onResolveCache[importer] ??= {}
EnsureImporter(cache, importer) ==
    IF importer \in DOMAIN cache THEN cache ELSE (importer :> <<>>) @@ cache

\* pluginData.onResolveCache[importer][importPath], undefined when the
\* property is missing
Lookup(cache, key) ==
    IF /\ key.importer \in DOMAIN cache
       /\ key.importPath \in DOMAIN cache[key.importer]
    THEN cache[key.importer][key.importPath]
    ELSE Undefined

\* pluginData.onResolveCache[importer][importPath] = callbackResult
Put(cache, key, value) ==
    [cache EXCEPT ![key.importer] = (key.importPath :> value) @@ @]

\* cachedResult != null
NotNull(value) == value # Undefined

Throws(value) == "throws" \in DOMAIN value

\* The decision first returned for a pair in the running build
NoteCompleted(done, key, value) ==
    IF key \in DOMAIN done THEN done ELSE (key :> value) @@ done

\* What a new request finds completed for its pair in the running build
PriorOf(key) ==
    IF key \in DOMAIN completed
    THEN [known |-> TRUE, value |-> completed[key]]
    ELSE [known |-> FALSE]

SlotOf(s) == IF s \in DOMAIN slots THEN slots[s] ELSE Idle

\* A new call takes the first slot that is free
IsFree(s) ==
    /\ SlotOf(s).pc = "idle"
    /\ \A t \in SlotIds : t < s => SlotOf(t).pc # "idle"

SetSlot(s, rec) == (s :> rec) @@ slots

CacheInit ==
    /\ platform \in Platforms
    /\ options \in {[packageType |-> "module", packageName |-> Lorem]}
    /\ pluginData = configureOptions(getPluginData(options),
                                     [outbase |-> ProjectRoot])
    /\ args = Unset
    /\ result = Unset
    /\ handled = "none"
    /\ rawPath = <<>>
    /\ stage = "off"
    /\ coarse = Unset
    /\ once = Unset
    /\ twice = Unset
    /\ precise = Unset
    /\ onResolveCache = <<>>
    /\ slots = <<>>
    /\ build = 1
    /\ begun = 0
    /\ completed = <<>>
    /\ manifestFile = Unset
    /\ resolvable = {}
    /\ runs = <<>>
    /\ cachedManifest = 0
    /\ metafile = <<>>
    /\ ends = <<>>
    /\ unhandled = "none"

\* cachedResolve lines 20-28 when the cache holds a result for the pair
HitWith(s, a, key, cache) ==
    /\ NotNull(Lookup(cache, key))
    /\ onResolveCache' = cache
    /\ slots' = SetSlot(s, [pc |-> "returned", args |-> a, key |-> key,
                            invoked |-> FALSE, prior |-> PriorOf(key),
                            value |-> Lookup(cache, key)])
    /\ completed' = NoteCompleted(completed, key, Lookup(cache, key))

ResolveHit(s) ==
    /\ IsFree(s)
    /\ begun < MaxRequests
    /\ begun' = begun + 1
    /\ \E a \in CachedRequests :
        HitWith(s, a, CacheKey(a),
                EnsureImporter(onResolveCache, normalize(a.importer)))
    /\ UNCHANGED <<platform, benchVars, resolveVars, manifestVars, endVars, build>>

\* cachedResolve lines 20-30 when it does not: the callback runs, and the
\* wrapper waits at its await before it stores the result
MissWith(s, a, key, cache, callbackResult) ==
    /\ ~NotNull(Lookup(cache, key))
    /\ ~Throws(callbackResult)
    /\ onResolveCache' = cache
    /\ slots' = SetSlot(s, [pc |-> "awaiting", args |-> a, key |-> key,
                            invoked |-> TRUE, prior |-> PriorOf(key),
                            value |-> callbackResult])
    /\ UNCHANGED completed

ResolveMiss(s) ==
    /\ IsFree(s)
    /\ begun < MaxRequests
    /\ begun' = begun + 1
    /\ \E a \in CachedRequests :
        MissWith(s, a, CacheKey(a),
                 EnsureImporter(onResolveCache, normalize(a.importer)),
                 Callback(pluginData, a))
    /\ UNCHANGED <<platform, benchVars, resolveVars, manifestVars, endVars, build>>

\* cachedResolve lines 20-30 when the callback throws: the call is rejected
\* and nothing is stored
ThrowsWith(s, a, key, cache, callbackResult) ==
    /\ ~NotNull(Lookup(cache, key))
    /\ Throws(callbackResult)
    /\ onResolveCache' = cache
    /\ slots' = SetSlot(s, [pc |-> "returned", args |-> a, key |-> key,
                            invoked |-> TRUE, prior |-> PriorOf(key),
                            value |-> callbackResult])
    /\ completed' = NoteCompleted(completed, key, callbackResult)

ResolveThrows(s) ==
    /\ IsFree(s)
    /\ begun < MaxRequests
    /\ begun' = begun + 1
    /\ \E a \in CachedRequests :
        ThrowsWith(s, a, CacheKey(a),
                   EnsureImporter(onResolveCache, normalize(a.importer)),
                   Callback(pluginData, a))
    /\ UNCHANGED <<platform, benchVars, resolveVars, manifestVars, endVars, build>>

\* cachedResolve lines 31-33, after the await
StoreResult(s) ==
    /\ SlotOf(s).pc = "awaiting"
    /\ onResolveCache' = Put(onResolveCache, slots[s].key, slots[s].value)
    /\ completed' = NoteCompleted(completed, slots[s].key, slots[s].value)
    /\ slots' = SetSlot(s, [slots[s] EXCEPT !.pc = "returned"])
    /\ UNCHANGED <<platform, benchVars, resolveVars, manifestVars, endVars, build, begun>>

\* esbuild takes the result; the call is over
Return(s) ==
    /\ SlotOf(s).pc = "returned"
    /\ slots' = SetSlot(s, Idle)
    /\ UNCHANGED <<platform, benchVars, resolveVars, manifestVars, endVars,
                   onResolveCache, build, begun, completed>>

\* onEnd of one build and onStart of the next one of the same plugin
\* instance: neither touches pluginData.onResolveCache
NextBuild ==
    /\ \A s \in SlotIds : SlotOf(s).pc = "idle"
    /\ build < MaxBuilds
    /\ build' = build + 1
    /\ completed' = <<>>
    /\ UNCHANGED <<platform, benchVars, resolveVars, manifestVars, endVars,
                   onResolveCache, slots, begun>>

CacheNext ==
    \/ \E s \in SlotIds : ResolveHit(s)
    \/ \E s \in SlotIds : ResolveMiss(s)
    \/ \E s \in SlotIds : ResolveThrows(s)
    \/ \E s \in SlotIds : StoreResult(s)
    \/ \E s \in SlotIds : Return(s)
    \/ NextBuild

SpecCache == CacheInit /\ [][CacheNext]_vars

-----------------------------------------------------------------------------
(* foundryManifest.ts: the manifest's imports at build start                *)

MaxImports == 2
MaxStarts == 2

\* manifestImports, in the order of its keys
ManifestKeys == <<"scripts", "esmodules", "styles", "packs", "languages">>

\* manifestImports[manifestKey]: the items are objects with a path
IsPathObj(manifestKey) == manifestKey \in {"packs", "languages"}

\* The declared import path: ./baz.js
ManifestPaths == {<<Dot, Slash>> \o BazJs}

KeyIndex(manifestKey) ==
    CHOOSE i \in 1..Len(ManifestKeys) : ManifestKeys[i] = manifestKey

\* The declared imports of a manifest, field after field
Declarations ==
    {d \in UNION {[1..n -> [manifestKey : {ManifestKeys[i] : i \in 1..Len(ManifestKeys)},
                             importPath : ManifestPaths]] : n \in 0..MaxImports} :
        \A i \in 1..(Len(d) - 1) :
            KeyIndex(d[i].manifestKey) <= KeyIndex(d[i + 1].manifestKey)}

RECURSIVE ItemsOf(_, _)
ItemsOf(d, manifestKey) ==
    IF Len(d) = 0 THEN <<>>
    ELSE (IF d[1].manifestKey = manifestKey
          THEN <<IF IsPathObj(manifestKey)
                 THEN [path |-> d[1].importPath]
                 ELSE d[1].importPath>>
          ELSE <<>>)
         \o ItemsOf(Tail(d), manifestKey)

\* JSON.parse(manifestContents): every one of the five fields is an array
ManifestOf(d) ==
    [manifestKey \in {ManifestKeys[i] : i \in 1..Len(ManifestKeys)} |->
        ItemsOf(d, manifestKey)]

\* forEachManifestImports: the (manifestKey, index) pairs in the order in
\* which the callback is awaited for them
RECURSIVE EntriesFrom(_, _)
EntriesFrom(manifestJSON, k) ==
    IF k > Len(ManifestKeys) THEN <<>>
    ELSE [i \in 1..Len(manifestJSON[ManifestKeys[k]]) |->
             [manifestKey |-> ManifestKeys[k], index |-> i - 1]]
         \o EntriesFrom(manifestJSON, k + 1)

Entries(manifestJSON) == EntriesFrom(manifestJSON, 1)

\* importsItem.path or importsItem
ImportPathOf(manifestJSON, entry) ==
    IF IsPathObj(entry.manifestKey)
    THEN manifestJSON[entry.manifestKey][entry.index + 1].path
    ELSE manifestJSON[entry.manifestKey][entry.index + 1]

\* `${manifestKey}[${i}]${isPathObj ? `.path` : ""}`
KeyPath(entry) ==
    <<entry.manifestKey, "[", entry.index, "]">>
    \o (IF IsPathObj(entry.manifestKey) THEN <<".path">> ELSE <<>>)

\* `./${normalizedPath}`
RelativeRequest(normalizedPath) == <<Dot, Slash>> \o normalizedPath

\* path.join("../../scripts", manifestImport)
ScriptsRequest(manifestImport) ==
    PosixJoin(<<<<Dot, Dot, Slash, Dot, Dot, Slash, "scripts">>, manifestImport>>)

\* build.resolve(request, { resolveDir: pluginData.projectRoot }): esbuild
\* answers with no errors, or with errors and an empty path
BuildResolve(request) ==
    IF request \in resolvable
    THEN [errors |-> <<>>, path |-> ProjectRoot \o <<Slash>> \o request]
    ELSE [errors |-> <<[text |-> "Could not resolve", path |-> request]>>,
          path |-> <<>>]

\* The resolveError objects of lines 265-275 and 285-295
ResolveError(pd, keyPath, manifestImport, reason) ==
    [pluginName |-> pd.pluginName,
     text |-> <<"Could not resolve ", manifestImport>>,
     detail |-> [manifestFile |-> <<pd.packageType, Dot, "json">>,
                 keyPath |-> keyPath,
                 manifestImport |-> manifestImport,
                 reason |-> reason]]

\* A resolveManifestImport in which packs fall back to ../../scripts like
\* every other field
AfterScriptsResolveAnyField(pd, manifestImport, keyPath, normalizedPath, relativeImportData, scriptsImportData) ==
    IF Len(scriptsImportData.errors) # 0
    THEN [path |-> scriptsImportData.path,
          localImport |-> FALSE,
          errors |-> <<ResolveError(pd, keyPath, manifestImport,
                          "could not resolve as a relative path or within scripts")>>]
    ELSE [path |-> normalizedPath,
          localImport |-> FALSE,
          errors |-> <<>>]

\* resolveManifestImport from line 252, with the answer to the second
\* build.resolve
AfterScriptsResolve(pd, manifestImport, keyPath, normalizedPath, relativeImportData, scriptsImportData) ==
    IF keyPath[1] = "packs"
    THEN [path |-> relativeImportData.path,
          localImport |-> FALSE,
          errors |-> <<ResolveError(pd, keyPath, manifestImport,
                          IF Len(scriptsImportData.errors) = 0
                          THEN "does not exist as a relative path, exists within scripts"
                          ELSE "does not exist as a relative path")>>]
    ELSE IF Len(scriptsImportData.errors) # 0
    THEN [path |-> scriptsImportData.path,
          localImport |-> FALSE,
          errors |-> <<ResolveError(pd, keyPath, manifestImport,
                          "could not resolve as a relative path or within scripts")>>]
    ELSE [path |-> normalizedPath,
          localImport |-> FALSE,
          errors |-> <<>>]

\* resolveManifestImport from line 242, with the answer to the first
\* build.resolve; `issued` lists the requests made of build.resolve
AfterRelativeResolve(pd, manifestImport, keyPath, normalizedPath, relativeImportData) ==
    IF Len(relativeImportData.errors) = 0
    THEN [result |-> [path |-> normalizedPath,
                      localImport |-> TRUE,
                      errors |-> <<>>],
          issued |-> <<RelativeRequest(normalizedPath)>>]
    ELSE [result |-> AfterScriptsResolve(pd, manifestImport, keyPath,
                         normalizedPath, relativeImportData,
                         BuildResolve(ScriptsRequest(manifestImport))),
          issued |-> <<RelativeRequest(normalizedPath),
                       ScriptsRequest(manifestImport)>>]

ResolveNormalized(pd, manifestImport, keyPath, normalizedPath) ==
    AfterRelativeResolve(pd, manifestImport, keyPath, normalizedPath,
                         BuildResolve(RelativeRequest(normalizedPath)))

\* resolveManifestImport(pluginData, build, manifestImport, keyPath)
resolveManifestImport(pd, manifestImport, keyPath) ==
    ResolveNormalized(pd, manifestImport, keyPath, normalize(manifestImport))

\* updateManifestImports lines 174-178: importArr[i] or importArr[i].path
\* takes the resultPath
SetImport(manifestJSON, entry, resultPath) ==
    [manifestJSON EXCEPT ![entry.manifestKey][entry.index + 1] =
        IF IsPathObj(entry.manifestKey)
        THEN [@ EXCEPT !.path = resultPath]
        ELSE resultPath]

\* Callbacks that record every resolved path as a local import
EntryDoneAlwaysLocal(run, entry, manifestImport, resolved) ==
    [run EXCEPT
        !.errors = @ \o resolved.result.errors,
        !.localImports = Append(@, resolved.result.path),
        !.manifestJSON = SetImport(@, entry, resolved.result.path),
        !.issued = @ \o resolved.issued,
        !.log = Append(@, [entry |-> entry,
                           manifestImport |-> manifestImport,
                           result |-> resolved.result,
                           issued |-> resolved.issued]),
        !.pos = @ + 1]

\* The callbacks of normalizeManifest (lines 105-130) and of
\* updateManifestImports (lines 164-178) for one entry
EntryDone(run, entry, manifestImport, resolved) ==
    [run EXCEPT
        !.errors = @ \o resolved.result.errors,
        !.localImports = IF resolved.result.localImport
                         THEN Append(@, resolved.result.path)
                         ELSE @,
        !.manifestJSON = SetImport(@, entry, resolved.result.path),
        !.issued = @ \o resolved.issued,
        !.log = Append(@, [entry |-> entry,
                           manifestImport |-> manifestImport,
                           result |-> resolved.result,
                           issued |-> resolved.issued]),
        !.pos = @ + 1]

ProcessEntry(pd, run, entry, manifestImport) ==
    EntryDone(run, entry, manifestImport,
              resolveManifestImport(pd, manifestImport, KeyPath(entry)))

\* The requests build.resolve can be given for the declared paths
PossibleRequests ==
    {RelativeRequest(normalize(p)) : p \in ManifestPaths}
    \cup {ScriptsRequest(p) : p \in ManifestPaths}

ManifestInit ==
    /\ platform \in Platforms
    /\ options \in {[packageType |-> t, packageName |-> Lorem] : t \in PackageTypes}
    /\ pluginData = configureOptions(getPluginData(options),
                                     [outbase |-> ProjectRoot])
    /\ args = Unset
    /\ result = Unset
    /\ handled = "none"
    /\ rawPath = <<>>
    /\ stage = "off"
    /\ coarse = Unset
    /\ once = Unset
    /\ twice = Unset
    /\ precise = Unset
    /\ onResolveCache = <<>>
    /\ slots = <<>>
    /\ build = 1
    /\ begun = 0
    /\ completed = <<>>
    /\ manifestFile \in {ManifestOf(d) : d \in Declarations}
    /\ resolvable \in SUBSET PossibleRequests
    /\ runs = <<>>
    /\ cachedManifest = 0
    /\ metafile = <<>>
    /\ ends = <<>>
    /\ unhandled = "none"

\* What setupManifest returns, lines 45-58
StartResult(errors) ==
    IF Len(errors) # 0 THEN [errors |-> errors] ELSE Undefined

\* getManifest and normalizeManifest up to line 132: the manifest is read,
\* parsed and validated, and updateManifestImports is called but not
\* awaited, so the objects are returned before any build.resolve answers
NewRun ==
    [manifestJSON |-> manifestFile,
     errors |-> <<>>,
     localImports |-> <<>>,
     issued |-> <<>>,
     log |-> <<>>,
     pos |-> 0,
     returned |-> Unset]

\* build.onStart(() => setupManifest(pluginData, build))
SetupWith(run) ==
    /\ runs' = Append(runs, [run EXCEPT !.returned = StartResult(run.errors)])
    /\ cachedManifest' =
         IF Len(run.errors) = 0 /\ cachedManifest = 0
         THEN Len(runs) + 1
         ELSE cachedManifest

SetupManifest ==
    /\ Len(runs) < MaxStarts
    /\ SetupWith(NewRun)
    /\ UNCHANGED <<platform, benchVars, resolveVars, cacheVars, endVars, manifestFile,
                   resolvable>>

\* forEachManifestImports lines 197-215 for the next entry of a call's
\* manifest: build.resolve answers and the callbacks complete
StepWith(r, entries) ==
    /\ runs[r].pos < Len(entries)
    /\ runs' = [runs EXCEPT ![r] =
            ProcessEntry(pluginData, @, entries[runs[r].pos + 1],
                ImportPathOf(runs[r].manifestJSON, entries[runs[r].pos + 1]))]

ResolveManifestEntry(r) ==
    /\ StepWith(r, Entries(manifestFile))
    /\ UNCHANGED <<platform, benchVars, resolveVars, cacheVars, endVars, manifestFile,
                   resolvable, cachedManifest>>

ManifestNext ==
    \/ SetupManifest
    \/ \E r \in 1..MaxStarts : r <= Len(runs) /\ ResolveManifestEntry(r)

SpecManifest == ManifestInit /\ [][ManifestNext]_vars

-----------------------------------------------------------------------------
(* foundryManifest.ts: the manifest at build end                            *)

\* nativePath.resolve(options.outdir)
OutDir == <<Slash, "o">>

\* esbuild names the files of its metafile relative to the working directory
InProjectRoot(file) == PosixRelative(Cwd, ProjectRoot) \o <<Slash>> \o file

InOutDir(file) == PosixRelative(Cwd, OutDir) \o <<Slash>> \o file

\* The output files of the bundles: out/baz.js and out/bar.js
OutBazJs == <<"out", Slash>> \o BazJs
OutBarJs == <<"out", Slash>> \o BarJs

\* result.metafile.outputs, output after output: nothing bundled, baz.js
\* bundled, baz.js and bar.js bundled apart, and both bundled into one file
Metafiles ==
    {<<>>,
     <<[outputPath |-> InOutDir(OutBazJs), inputs |-> <<InProjectRoot(BazJs)>>]>>,
     <<[outputPath |-> InOutDir(OutBazJs), inputs |-> <<InProjectRoot(BazJs)>>],
       [outputPath |-> InOutDir(OutBarJs), inputs |-> <<InProjectRoot(BarJs)>>]>>,
     <<[outputPath |-> InOutDir(OutBazJs),
        inputs |-> <<InProjectRoot(BazJs), InProjectRoot(BarJs)>>]>>}

\* getInputsToOutputs lines 419-423: the inputs of one output
RECURSIVE AssignInputs(_, _, _, _)
AssignInputs(inputsToOutputs, relativeProject, inputs, outputRelative) ==
    IF Len(inputs) = 0 THEN inputsToOutputs
    ELSE AssignInputs((PosixRelative(relativeProject, inputs[1]) :> outputRelative)
                          @@ inputsToOutputs,
                      relativeProject, Tail(inputs), outputRelative)

\* getInputsToOutputs lines 416-424: output after output
RECURSIVE AssignOutputs(_, _, _, _)
AssignOutputs(inputsToOutputs, relativeProject, relativeOutput, outputs) ==
    IF Len(outputs) = 0 THEN inputsToOutputs
    ELSE AssignOutputs(
             AssignInputs(inputsToOutputs, relativeProject, outputs[1].inputs,
                          PosixRelative(relativeOutput, outputs[1].outputPath)),
             relativeProject, relativeOutput, Tail(outputs))

\* getInputsToOutputs(pluginData, metafile): source path relative to the
\* project root -> output path relative to the output directory
getInputsToOutputs(pd, outputs) ==
    AssignOutputs(<<>>, PosixRelative(Cwd, pd.projectRoot),
                  PosixRelative(Cwd, OutDir), outputs)

\* What delete importArr[index] leaves in the array
EmptyItem == <<"empty item">>

\* createManifest line 367: delete importArr[index]
DeleteImport(finalManifest, entry) ==
    [finalManifest EXCEPT ![entry.manifestKey][entry.index + 1] = EmptyItem]

\* createManifest lines 355-363: the Error thrown in the callback
BundledTogetherError(otherImport, importPath, outputPath, manifestKey) ==
    [otherImport |-> otherImport,
     importPath |-> importPath,
     outputPath |-> outputPath,
     manifestKey |-> manifestKey]

\* createManifest lines 370-377: importArr[index] or its path takes the
\* output path, and outputs[outputPath] the import
UpdatePath(end, entry, importPath, outputPath) ==
    [end EXCEPT
        !.finalManifest = SetImport(@, entry, outputPath),
        !.outputs = (outputPath :> importPath) @@ @,
        !.pos = @ + 1]

\* createManifest lines 350-377: esbuild has an output for the import
Bundled(end, entry, importPath, outputPath) ==
    IF outputPath \in DOMAIN end.outputs
    THEN IF IsPathObj(entry.manifestKey)
         THEN [end EXCEPT !.rejected =
                  <<BundledTogetherError(end.outputs[outputPath], importPath,
                                         outputPath, entry.manifestKey)>>]
         ELSE UpdatePath([end EXCEPT !.finalManifest = DeleteImport(@, entry)],
                         entry, importPath, outputPath)
    ELSE UpdatePath(end, entry, importPath, outputPath)

\* The callback of createManifest, lines 328-378, as far as it runs without
\* waiting for the file system: a local import that esbuild has no output
\* for waits at fs.promises.mkdir
ReconcileWith(end, entry, importPath) ==
    IF importPath \notin DOMAIN end.inputsToOutputs
    THEN IF importPath \in end.localImportsSet
         THEN [end EXCEPT !.copying = TRUE]
         ELSE [end EXCEPT !.pos = @ + 1]
    ELSE Bundled(end, entry, importPath, end.inputsToOutputs[importPath])

Reconcile(end, entry) ==
    ReconcileWith(end, entry, ImportPathOf(end.finalManifest, entry))

\* forEachManifestImports lines 195-216 once the first callback has been
\* awaited: the entries follow each other without a pause until one waits
\* for the file system, one throws, or none is left
RECURSIVE Continue(_, _)
Continue(end, entries) ==
    IF end.pos = Len(entries) \/ end.copying \/ Len(end.rejected) # 0
    THEN end
    ELSE Continue(Reconcile(end, entries[end.pos + 1]), entries)

\* createManifest lines 316-325
NewEnd(consumed, run, inputsToOutputs) ==
    [consumed |-> consumed,
     inputsToOutputs |-> inputsToOutputs,
     localImportsSet |-> {run.localImports[k] : k \in 1..Len(run.localImports)},
     finalManifest |-> run.manifestJSON,
     outputs |-> <<>>,
     pos |-> 0,
     copying |-> FALSE,
     copied |-> {},
     rejected |-> <<>>,
     serialized |-> run.manifestJSON,
     posAtSerialize |-> 0,
     returned |-> FALSE,
     posAtReturn |-> 0,
     copiedAtReturn |-> {}]

\* createManifest line 326: forEachManifestImports is called and not
\* awaited; it runs up to its first await, the callback for the first entry
CallForEach(end, entries) ==
    IF Len(entries) = 0 THEN end ELSE Reconcile(end, entries[1])

\* createManifest lines 381-389: JSON.stringify(finalManifest, null, 4) is
\* evaluated when fs.promises.writeFile is called
Serialize(end) ==
    [end EXCEPT !.serialized = end.finalManifest, !.posAtSerialize = end.pos]

\* The promise of forEachManifestImports is rejected and nothing awaits it:
\* depending on Node's unhandled-rejections mode the process exits or goes
\* on with a warning
Outcomes(end) ==
    IF Len(end.rejected) = 0 THEN {unhandled}
    ELSE IF unhandled = "warned" THEN {"warned"}
    ELSE {"warned", "exited"}

AddEnd(end) ==
    /\ ends' = Append(ends, end)
    /\ unhandled' \in Outcomes(end)

CreateWith(end) ==
    AddEnd(Continue(Serialize(CallForEach(end, Entries(end.finalManifest))),
                    Entries(end.finalManifest)))

\* build.onEnd((result) => createManifest(pluginData, build, result)), up
\* to the await of fs.promises.writeFile
CreateManifest ==
    /\ unhandled # "exited"
    /\ Len(ends) < Len(runs)
    /\ cachedManifest # 0
    /\ CreateWith(NewEnd(cachedManifest, runs[cachedManifest],
                         getInputsToOutputs(pluginData, metafile)))
    /\ UNCHANGED <<platform, benchVars, resolveVars, cacheVars, manifestVars,
                   metafile>>

SetEnd(e, end) ==
    /\ ends' = [ends EXCEPT ![e] = end]
    /\ unhandled' \in Outcomes(end)

\* createManifest lines 334-347: mkdir and copyFile are done, the callback
\* returns and forEachManifestImports goes on
CopiedWith(e, entries, importPath) ==
    SetEnd(e, Continue([ends[e] EXCEPT
                           !.copying = FALSE,
                           !.copied = @ \cup {importPath},
                           !.pos = @ + 1],
                       entries))

CopyDone(e) ==
    /\ unhandled # "exited"
    /\ ends[e].copying
    /\ CopiedWith(e, Entries(ends[e].finalManifest),
                  ImportPathOf(ends[e].finalManifest,
                               Entries(ends[e].finalManifest)[ends[e].pos + 1]))
    /\ UNCHANGED <<platform, benchVars, resolveVars, cacheVars, manifestVars,
                   metafile>>

\* createManifest lines 386-390: fs.promises.writeFile is done and the
\* hook returns
WriteDone(e) ==
    /\ unhandled # "exited"
    /\ ~ends[e].returned
    /\ ends' = [ends EXCEPT ![e] = [@ EXCEPT !.returned = TRUE,
                                             !.posAtReturn = ends[e].pos,
                                             !.copiedAtReturn = ends[e].copied]]
    /\ UNCHANGED <<platform, benchVars, resolveVars, cacheVars, manifestVars,
                   metafile, unhandled>>

\* The declared import paths of the builds: ./baz.js and bar.js
BuildPaths == {<<Dot, Slash>> \o BazJs, BarJs}

BuildDeclarations ==
    {d \in UNION {[1..n -> [manifestKey : {ManifestKeys[i] : i \in 1..Len(ManifestKeys)},
                             importPath : BuildPaths]] : n \in 0..MaxImports} :
        \A i \in 1..(Len(d) - 1) :
            KeyIndex(d[i].manifestKey) <= KeyIndex(d[i + 1].manifestKey)}

\* What build.resolve resolves: a choice of the declared paths relative to
\* the project root, and every one of them under ../../scripts
BuildResolvables ==
    {{RelativeRequest(normalize(p)) : p \in local}
         \cup {ScriptsRequest(p) : p \in BuildPaths} :
     local \in SUBSET BuildPaths}

\* The files esbuild bundled are in the project: build.resolve finds them
InputsExist(outputs, found) ==
    \A o \in 1..Len(outputs) : \A i \in 1..Len(outputs[o].inputs) :
        \E p \in BuildPaths :
            /\ outputs[o].inputs[i] = InProjectRoot(normalize(p))
            /\ RelativeRequest(normalize(p)) \in found

BuildInit ==
    /\ platform \in Platforms
    /\ options = [packageType |-> "module", packageName |-> Lorem]
    /\ pluginData = configureOptions(getPluginData(options),
                                     [outbase |-> ProjectRoot])
    /\ args = Unset
    /\ result = Unset
    /\ handled = "none"
    /\ rawPath = <<>>
    /\ stage = "off"
    /\ coarse = Unset
    /\ once = Unset
    /\ twice = Unset
    /\ precise = Unset
    /\ onResolveCache = <<>>
    /\ slots = <<>>
    /\ build = 1
    /\ begun = 0
    /\ completed = <<>>
    /\ manifestFile \in {ManifestOf(d) : d \in BuildDeclarations}
    /\ resolvable \in BuildResolvables
    /\ runs = <<>>
    /\ cachedManifest = 0
    /\ metafile \in {m \in Metafiles : InputsExist(m, resolvable)}
    /\ ends = <<>>
    /\ unhandled = "none"

\* build.onStart of a build: esbuild starts a build of the plugin instance
\* when the one before has ended
BuildStart ==
    /\ unhandled # "exited"
    /\ Len(runs) < MaxStarts
    /\ Len(ends) = Len(runs)
    /\ \A e \in 1..Len(ends) : ends[e].returned
    /\ SetupWith(NewRun)
    /\ UNCHANGED <<platform, benchVars, resolveVars, cacheVars, endVars,
                   manifestFile, resolvable>>

BuildResolveEntry(r) ==
    /\ unhandled # "exited"
    /\ ResolveManifestEntry(r)

BuildNext ==
    \/ BuildStart
    \/ \E r \in 1..MaxStarts : r <= Len(runs) /\ BuildResolveEntry(r)
    \/ CreateManifest
    \/ \E e \in 1..MaxStarts : e <= Len(ends) /\ CopyDone(e)
    \/ \E e \in 1..MaxStarts : e <= Len(ends) /\ WriteDone(e)

SpecBuild == BuildInit /\ [][BuildNext]_vars

-----------------------------------------------------------------------------
(* Claims about the path normalizer and the classifiers                    *)

\* The segments of a path when both "/" and "\\" separate, empty ones dropped
RECURSIVE DropEmpty(_)
DropEmpty(segs) ==
    IF Len(segs) = 0 THEN <<>>
    ELSE (IF segs[1] = <<>> THEN <<>> ELSE <<segs[1]>>) \o DropEmpty(Tail(segs))

PathSegments(s) == DropEmpty(Split(s, TRUE))

\* Lexical cancellation: "." segments vanish and a name cancels with the
\* ".." that follows it; what is left is a run of ".." and then names.
RECURSIVE Cancel(_, _)
Cancel(kept, segs) ==
    IF Len(segs) = 0 THEN kept
    ELSE LET seg == segs[1] IN
         IF seg = <<Dot>> THEN Cancel(kept, Tail(segs))
         ELSE IF seg = DotDot /\ Len(kept) > 0 /\ kept[Len(kept)] # DotDot
              THEN Cancel(SubSeq(kept, 1, Len(kept) - 1), Tail(segs))
              ELSE Cancel(Append(kept, seg), Tail(segs))

IsRelative(s) == Len(s) > 0 /\ ~IsAnySep(s[1])

\* s begins with a ".." segment followed by a separator or the end of s
BeginsWithParentDir(s) ==
    /\ Len(s) >= 2
    /\ s[1] = Dot
    /\ s[2] = Dot
    /\ (Len(s) = 2 \/ s[3] = Slash)

\* The relative path s, once cancelled, begins with a ".." segment
NetsUpward(s) ==
    LET left == Cancel(<<>>, PathSegments(s))
    IN  Len(left) > 0 /\ left[1] = DotDot

\* C1: the coarse classifier has no false negatives: a relative path that,
\* after lexical cancellation of "." and "name/..", begins with a ".."
\* segment is matched by traversesUpDirectoryRegex.
C1_CoarseNoFalseNegative ==
    (stage # "input" /\ IsRelative(rawPath) /\ NetsUpward(rawPath))
        => coarse = TRUE

\* C1 witness: a path whose leading "name/.." pair cancels, leaving "..",
\* has been classified.
C1_Witness ==
    /\ stage # "input"
    /\ rawPath = <<"a", Slash, Dot, Dot, Backslash, Dot, Dot>>
    /\ coarse = TRUE

\* C2: on a normalized forward-slash path the precise classifier matches
\* if and only if the path begins with a ".." segment followed by a
\* separator or the end of the string.
C2_PreciseExact ==
    stage \in {"classified", "done"} => (precise = BeginsWithParentDir(once))

\* C3: normalize is idempotent, and on a host whose separator is not "/"
\* its output holds no native separator.
C3_NormalizeIdempotent ==
    /\ stage = "done" => twice = once
    /\ (stage \in {"normalized", "classified", "done"} /\ NativeSep # Slash)
           => \A i \in 1..Len(once) : once[i] # NativeSep

\* C3 witness: on win32 a path with a backslash, a "." and a "name/.." pair
\* has been normalized twice.
C3_Witness ==
    /\ stage = "done"
    /\ platform = "win32"
    /\ rawPath = <<Dot, Backslash, "a", Slash, Dot, Dot, Backslash>>
    /\ once # rawPath
    /\ twice = once

\* Some segment of s, between separators of either kind, is exactly ".."
HasParentDirSegment(s) ==
    \E k \in 1..Len(Split(s, TRUE)) : Split(s, TRUE)[k] = DotDot

\* C25: the coarse classifier matches no path that is without a segment
\* which is exactly "..": a segment that only starts with two dots does not
\* count
C25_CoarseNeedsParentDirSegment ==
    (stage # "input" /\ ~HasParentDirSegment(rawPath)) => coarse = FALSE

\* C25 witness: a/./..a, whose last segment starts with two dots, has been
\* classified and is not matched
C25_Witness ==
    /\ stage # "input"
    /\ rawPath = <<"a", Slash, Dot, Backslash, Dot, Dot, "a">>
    /\ coarse = FALSE

-----------------------------------------------------------------------------
(* Claims about the import resolution engine                               *)

Returned == handled # "none"

\* The request's importer directory relative to the project root
ImporterDir == normalize(NativeRelative(pluginData.projectRoot, args.resolveDir))

ImporterInsideRoot == ~BeginsWithParentDir(ImporterDir)

\* join(importerDirRelativeToRoot, normalize(rawPath))
JoinedPath == PosixJoin(<<ImporterDir, normalize(args.path)>>)

EscapesRoot == BeginsWithParentDir(JoinedPath)

\* <packageType>s/<packageName>
RuntimePrefix == <<pluginData.packageType, "s", Slash>> \o pluginData.packageName

\* join(<packageType>s/<packageName>, importerDir, importPath)
RuntimeLocation == PosixJoin(<<RuntimePrefix, ImporterDir, normalize(args.path)>>)

\* The runtime location is the package's runtime path or lies below it
UnderOwnPackage ==
    \/ RuntimeLocation = RuntimePrefix
    \/ StartsWith(RuntimeLocation, RuntimePrefix \o <<Slash>>)

IsOutsideRootError == "throws" \in DOMAIN result
IsErrorResult == "errors" \in DOMAIN result
IsHostExternal == "namespace" \in DOMAIN result /\ result.namespace = "foundry-import"
IsPassthrough == "external" \in DOMAIN result

ByTraversesUp == handled = "onResolveTraversesUp"
ByAbsolute == handled = "onResolveAbsolute"

IsDeferred == result = Undefined

IsLoadable == args.kind \in {"import-statement", "dynamic-import"}

\* C4: for an importer directory inside the package root and a raw path
\* flagged by the coarse filter, when the joined path does not begin with
\* a ".." segment, onResolveTraversesUp returns undefined (Deferred).
C4_NetZeroDeferred ==
    (ByTraversesUp /\ ImporterInsideRoot /\ ~EscapesRoot) => IsDeferred

\* The remainder of the runtime location after the package prefix, without
\* the separators around it
Remainder ==
    JoinWith(PathSegments(SliceFrom(RuntimeLocation, Len(RuntimePrefix))), Slash)

\* The local file that the runtime location is equivalent to
LocalFile == PosixJoin(<<pluginData.projectRoot, Remainder>>)

\* C5: an import that escapes the package root and whose runtime location
\* lies under this package's own runtime path is resolved to namespace
\* "file" at the project root joined with the remainder of the runtime
\* location after the package prefix.
C5_SelfPackagePath ==
    (ByTraversesUp /\ ImporterInsideRoot /\ EscapesRoot /\ UnderOwnPackage)
        => result = [path |-> LocalFile, namespace |-> "file"]

\* Importer scripts/foo/bar.js of the module lorem imports
\* ../../modules/lorem/baz.js
C6_Request ==
    /\ ByTraversesUp
    /\ options.packageType = "module"
    /\ options.packageName = Lorem
    /\ args.resolveDir = ProjectRoot \o <<Slash>> \o Scripts \o <<Slash>> \o Foo
    /\ args.path = JoinWith(<<DotDot, DotDot, Modules, Lorem, BazJs>>, Slash)

\* C6 as stated: importer scripts/foo/bar.js of the module lorem importing
\* ../../modules/lorem/baz.js gets namespace "file" at baz.js in the
\* project root.
C6_SelfPackageExample ==
    C6_Request
        => result = [path |-> ProjectRoot \o <<Slash>> \o BazJs,
                     namespace |-> "file"]

\* C6 amended: importer scripts/foo/bar.js of the module lorem importing
\* ../../modules/lorem/baz.js gets undefined (Deferred): joined to
\* scripts/foo the path is modules/lorem/baz.js, inside the project root.
C6_ExampleDeferred == C6_Request => IsDeferred

\* C6 witness: the example request has been resolved, and deferred.
C6_Witness ==
    /\ C6_Request
    /\ JoinedPath = JoinWith(<<Modules, Lorem, BazJs>>, Slash)
    /\ IsDeferred

\* C7: an import that escapes the package root and does not resolve back
\* into this package is decided by its kind alone: import-statement and
\* dynamic-import give namespace "foundry-import" carrying the runtime
\* location, every other kind gives {path: raw path, external: true}.
C7_ExternalByKind ==
    (ByTraversesUp /\ ImporterInsideRoot /\ EscapesRoot /\ ~UnderOwnPackage)
        => result = IF IsLoadable
                    THEN [namespace |-> "foundry-import",
                          pluginData |-> [foundryImport |-> RuntimeLocation]]
                    ELSE [path |-> args.path, external |-> TRUE]

\* C8: a request (other than the exempt manifest entry point) fails with
\* the "importer directory lies outside of the configured project root"
\* error if and only if its resolveDir, relative to the project root and
\* normalized, begins with a ".." segment.
C8_OutsideRootIff ==
    (Returned /\ ~IsManifestEntryPoint(pluginData, args))
        => (IsOutsideRootError <=> ~ImporterInsideRoot)

\* C9: an import whose runtime location still begins with a ".." segment
\* gets an error, never namespace "foundry-import" nor an external
\* passthrough.
C9_OutOfRootError ==
    (ByTraversesUp /\ ImporterInsideRoot /\ BeginsWithParentDir(RuntimeLocation))
        => (IsErrorResult \/ IsOutsideRootError)
           /\ ~IsHostExternal
           /\ ~IsPassthrough

\* options.importData.rewriteRootImports is absent or false
RewriteDisabled ==
    \/ "importData" \notin DOMAIN options
    \/ ~options.importData.rewriteRootImports

\* The result is the one error that says to enable rewriteRootImports
SaysRewriteNotEnabled ==
    /\ IsErrorResult
    /\ Len(result.errors) = 1
    /\ result.errors[1].text = "Rewriting root imports is not enabled!"
    /\ result.errors[1].detail =
         "Consider setting options.imports.rewriteRootImports to true in the plugin configuration if you would like root imports to be rewritten as relative imports."

RewriteEnabled ==
    /\ "importData" \in DOMAIN options
    /\ options.importData.rewriteRootImports

\* The runtime location /P of an absolute import, relative to Foundry's root
AbsoluteLocation == PosixJoin(<<<<Dot>>, normalize(args.path)>>)

\* C11: with rewriteRootImports enabled, the decision of onResolveAbsolute
\* for the absolute import /P equals the decision onResolveTraversesUp
\* makes for an escaping import whose runtime location resolvesTo is P:
\* namespace "file" when P lies in the package's own runtime path, else the
\* foundry-import or the external passthrough.
C11_AbsoluteAsRelative ==
    (/\ ByAbsolute
     /\ RewriteEnabled
     /\ ~IsManifestEntryPoint(pluginData, args)
     /\ ~IsOutsideRootError)
        => result = EscapingImport(pluginData, args, packagePath(pluginData),
                                   AbsoluteLocation)

\* <projectRoot>/<packageType>.json
OwnManifestPath ==
    pluginData.projectRoot \o <<Slash, pluginData.packageType, Dot, "json">>

\* C12: for a module and for a system, the package's own manifest file
\* <packageType>.json in the project root, requested as an entry point, is
\* left to default resolution by onResolveAbsolute, whatever
\* rewriteRootImports is.
C12_OwnManifestExempt ==
    (/\ ByAbsolute
     /\ args.kind = "entry-point"
     /\ normalize(args.path) = OwnManifestPath)
        => IsDeferred

IsSelfPackage == "namespace" \in DOMAIN result /\ result.namespace = "file"

\* C29: an escaping import gets namespace "file" (this package's own file)
\* only if its runtime location is the package's runtime path or lies below
\* it at a segment boundary; the sibling package lorem-extra of the package
\* lorem is not the package itself
C29_SelfPackageAtSegmentBoundary ==
    (ByTraversesUp /\ ImporterInsideRoot /\ EscapesRoot /\ IsSelfPackage)
        => UnderOwnPackage

-----------------------------------------------------------------------------
(* Claims about cachedResolve                                              *)

Active == {s \in DOMAIN slots : slots[s].pc # "idle"}

\* C13: once a request for a pair (normalized importer, normalized path)
\* has completed within a build, a later request for the same pair does
\* not invoke the wrapped resolver and returns the same decision; this
\* includes a pair whose decision is undefined (Deferred).
C13_CompletedPairNotRecomputed ==
    \A s \in Active :
        slots[s].prior.known
            => /\ ~slots[s].invoked
               /\ slots[s].value = slots[s].prior.value

\* C14: two requests for the same pair that are under way at the same time
\* never both invoke the wrapped resolver.
C14_OneComputationPerPair ==
    \A s, t \in Active :
        (s # t /\ slots[s].key = slots[t].key)
            => ~(slots[s].invoked /\ slots[t].invoked)

\* C15: for a fixed pair within one build all requests return equal
\* decisions, and the value in the cache equals the value every writer
\* computed.
C15_DeterministicPerPair ==
    \A s \in Active :
        /\ slots[s].pc = "returned"
               => slots[s].value = completed[slots[s].key]
        /\ (/\ slots[s].invoked
            /\ ~Throws(slots[s].value)
            /\ NotNull(Lookup(onResolveCache, slots[s].key)))
               => slots[s].value = Lookup(onResolveCache, slots[s].key)

\* No pair has a decision in the cache
CacheEmpty ==
    \A importer \in DOMAIN onResolveCache :
        \A importPath \in DOMAIN onResolveCache[importer] :
            ~NotNull(onResolveCache[importer][importPath])

\* C16: the cache is empty at the start of every build: when a build of
\* the same plugin instance begins, no decision stored during an earlier
\* build is there to be returned.
C16_CacheEmptyAtBuildStart ==
    (build > 1 /\ Active = {} /\ completed = <<>>) => CacheEmpty

\* C26: the decision a request gets from cachedResolve is the decision the
\* wrapped resolver computes from that request's own arguments, its kind
\* included: a require-call is not answered with the "foundry-import"
\* decision stored for an import-statement of the same importer and path
C26_DecisionFromOwnArguments ==
    \A s \in Active :
        slots[s].pc = "returned"
            => slots[s].value = Callback(pluginData, slots[s].args)

-----------------------------------------------------------------------------
(* Claims about the manifest's imports at build start                       *)

\* The entries the manifest file declares, and their declared paths
Declared == Entries(manifestFile)

DeclaredPath(i) == ImportPathOf(manifestFile, Declared[i])

\* An entry is unresolved after its attempts: nothing answers to it relative
\* to the package root, and it is a packs entry or nothing answers to it
\* under ../../scripts either
Unresolved(i) ==
    /\ RelativeRequest(normalize(DeclaredPath(i))) \notin resolvable
    /\ \/ Declared[i].manifestKey = "packs"
       \/ ScriptsRequest(DeclaredPath(i)) \notin resolvable

UnresolvedEntries == {i \in 1..Len(Declared) : Unresolved(i)}

\* A diagnostic that names the field, the index and the declared path of an entry
Names(diagnostic, i) ==
    /\ diagnostic.detail.keyPath = KeyPath(Declared[i])
    /\ diagnostic.detail.manifestImport = DeclaredPath(i)

FailsStart(returned) ==
    /\ "errors" \in DOMAIN returned
    /\ Len(returned.errors) # 0

\* C17: when a declared import is unresolved after its attempts, every call
\* of setupManifest returns a non-empty errors list holding one diagnostic
\* for each unresolved entry, which names its field, index and declared path
C17_UnresolvedFailsStart ==
    \A r \in 1..Len(runs) :
        UnresolvedEntries # {} =>
            /\ FailsStart(runs[r].returned)
            /\ Len(runs[r].returned.errors) = Cardinality(UnresolvedEntries)
            /\ \A i \in UnresolvedEntries :
                   \E e \in 1..Len(runs[r].returned.errors) :
                       Names(runs[r].returned.errors[e], i)

\* The entries a call of setupManifest has resolved so far
Resolved ==
    UNION {{runs[r].log[k] : k \in 1..Len(runs[r].log)} : r \in 1..Len(runs)}

\* The entry did not resolve relative to the package root
FailedRelative(rec) ==
    RelativeRequest(normalize(rec.manifestImport)) \notin resolvable

FallbackIssued(rec) ==
    \E k \in 1..Len(rec.issued) :
        rec.issued[k] = ScriptsRequest(rec.manifestImport)

\* The resolution ends in one diagnostic, which names the entry's key path
\* and declared path
DiagnosedByKeyPath(rec) ==
    /\ Len(rec.result.errors) = 1
    /\ rec.result.errors[1].detail.keyPath = KeyPath(rec.entry)
    /\ rec.result.errors[1].detail.manifestImport = rec.manifestImport
    /\ ~rec.result.localImport

IsPacks(rec) == rec.entry.manifestKey = "packs"

LocalImportSet(r) == {runs[r].localImports[k] : k \in 1..Len(runs[r].localImports)}

\* The value the call's manifest holds for an entry
ManifestValue(r, rec) == ImportPathOf(runs[r].manifestJSON, rec.entry)

\* The call holds a diagnostic for the entry
Diagnosed(r, rec) ==
    \E e \in 1..Len(runs[r].errors) :
        runs[r].errors[e].detail.keyPath = KeyPath(rec.entry)

\* An entry that is not in packs, fails relative to the package root and
\* resolves under ../../scripts
ResolvesUnderScriptsOnly(rec) ==
    /\ ~IsPacks(rec)
    /\ FailedRelative(rec)
    /\ ScriptsRequest(rec.manifestImport) \in resolvable

\* C19: an entry that resolves relative to the package root is a local
\* import: its normalized path is in the call's local imports, no resolve
\* under ../../scripts is made for it and it has no diagnostic. An entry
\* outside packs that resolves only under ../../scripts is not a local
\* import and has no diagnostic. Both leave the normalized declared path in
\* the manifest
C19_LocalThenScripts ==
    \A r \in 1..Len(runs) : \A k \in 1..Len(runs[r].log) :
        /\ ~FailedRelative(runs[r].log[k]) =>
               /\ runs[r].log[k].result.localImport
               /\ normalize(runs[r].log[k].manifestImport) \in LocalImportSet(r)
               /\ ~FallbackIssued(runs[r].log[k])
               /\ ~Diagnosed(r, runs[r].log[k])
               /\ ManifestValue(r, runs[r].log[k]) =
                      normalize(runs[r].log[k].manifestImport)
        /\ ResolvesUnderScriptsOnly(runs[r].log[k]) =>
               /\ ~runs[r].log[k].result.localImport
               /\ normalize(runs[r].log[k].manifestImport) \notin LocalImportSet(r)
               /\ ~Diagnosed(r, runs[r].log[k])
               /\ ManifestValue(r, runs[r].log[k]) =
                      normalize(runs[r].log[k].manifestImport)

\* A languages entry declared as ./baz.js has resolved only under
\* ../../scripts and the manifest now holds baz.js for it
C19_Witness ==
    \E r \in 1..Len(runs) : \E k \in 1..Len(runs[r].log) :
        /\ runs[r].log[k].entry.manifestKey = "languages"
        /\ ResolvesUnderScriptsOnly(runs[r].log[k])
        /\ runs[r].log[k].manifestImport = <<Dot, Slash>> \o BazJs
        /\ ManifestValue(r, runs[r].log[k]) = BazJs

\* C20: only the first call of setupManifest resolves the manifest's
\* imports, and the cached manifest stays the first call's: a later call
\* makes no request of build.resolve and resolves no entry
C20_ComputedOnce ==
    /\ cachedManifest \in {0, 1}
    /\ \A r \in 2..Len(runs) :
           /\ Len(runs[r].issued) = 0
           /\ Len(runs[r].log) = 0

\* C27: once a call of setupManifest has returned (every call in runs
\* has), every declared entry has been resolved: the errors and the local imports of the call hold what
\* every entry gave, and no entry is left for a callback to resolve later
C27_ResolvedWhenReturned ==
    \A r \in 1..Len(runs) :
        /\ runs[r].pos = Len(Declared)
        /\ Len(runs[r].log) = Len(Declared)

-----------------------------------------------------------------------------
(* Claims about the manifest at build end                                   *)

\* The entries a call of createManifest goes through
EndEntries(e) == Entries(ends[e].finalManifest)

\* The path the manifest file declares for an entry, normalized
DeclaredNormalized(entry) == normalize(ImportPathOf(manifestFile, entry))

\* esbuild reports an output for the entry's declared path
HasOutput(e, entry) ==
    DeclaredNormalized(entry) \in DOMAIN ends[e].inputsToOutputs

OutputOf(e, entry) == ends[e].inputsToOutputs[DeclaredNormalized(entry)]

\* The value of an entry in the manifest document the call has written
WrittenValue(e, entry) == ImportPathOf(ends[e].serialized, entry)

\* C21: in the manifest document a call of createManifest has written,
\* every entry whose declared path esbuild has an output for holds that
\* output path, relative to the output directory
C21_BundledEntriesRewritten ==
    \A e \in 1..Len(ends) :
        ends[e].returned =>
            \A k \in 1..Len(EndEntries(e)) :
                HasOutput(e, EndEntries(e)[k]) =>
                    WrittenValue(e, EndEntries(e)[k]) = OutputOf(e, EndEntries(e)[k])

\* build.resolve finds the entry's declared path relative to the project
\* root: build start records such an entry as a local import
IsLocal(entry) == RelativeRequest(DeclaredNormalized(entry)) \in resolvable

\* forEachManifestImports has gone through every entry
Reconciled(e) == ends[e].pos = Len(EndEntries(e))

\* C22: an entry whose declared path esbuild has no output for keeps its
\* declared path in the written manifest (as declared, or normalized as
\* build start leaves it); once every entry has been gone through, its file
\* has been copied into the output directory if it is a local import, and
\* has not been copied if it is not
C22_UnbundledEntriesKept ==
    \A e \in 1..Len(ends) : \A k \in 1..Len(EndEntries(e)) :
        ~HasOutput(e, EndEntries(e)[k]) =>
            /\ ends[e].returned =>
                   WrittenValue(e, EndEntries(e)[k]) \in
                       {ImportPathOf(manifestFile, EndEntries(e)[k]),
                        DeclaredNormalized(EndEntries(e)[k])}
            /\ Reconciled(e) =>
                   (IsLocal(EndEntries(e)[k])
                        <=> DeclaredNormalized(EndEntries(e)[k]) \in ends[e].copied)

\* Entries j and k, j before k, whose declared paths esbuild bundled into
\* the same output file
BundledTogether(e, j, k) ==
    /\ j < k
    /\ HasOutput(e, EndEntries(e)[j])
    /\ HasOutput(e, EndEntries(e)[k])
    /\ OutputOf(e, EndEntries(e)[j]) = OutputOf(e, EndEntries(e)[k])

\* C23: when two entries of scripts, esmodules or styles are bundled into
\* the same output file, the later one is dropped: it is gone from the
\* written manifest, and from the final manifest once every entry has been
\* gone through, and the earlier one carries the output path
C23_LaterEntryDropped ==
    \A e \in 1..Len(ends) : \A j, k \in 1..Len(EndEntries(e)) :
        (/\ BundledTogether(e, j, k)
         /\ ~IsPathObj(EndEntries(e)[j].manifestKey)
         /\ ~IsPathObj(EndEntries(e)[k].manifestKey)) =>
            /\ ends[e].returned =>
                   /\ WrittenValue(e, EndEntries(e)[j]) = OutputOf(e, EndEntries(e)[j])
                   /\ WrittenValue(e, EndEntries(e)[k]) = EmptyItem
            /\ Reconciled(e) =>
                   ImportPathOf(ends[e].finalManifest, EndEntries(e)[k]) = EmptyItem

\* C24: when two entries of packs, or two of languages, are bundled into
\* the same output file, createManifest does not return normally and writes
\* no manifest
C24_PathObjectsBundledTogetherFail ==
    \A e \in 1..Len(ends) : \A j, k \in 1..Len(EndEntries(e)) :
        (/\ BundledTogether(e, j, k)
         /\ IsPathObj(EndEntries(e)[k].manifestKey)
         /\ EndEntries(e)[j].manifestKey = EndEntries(e)[k].manifestKey) =>
            ~ends[e].returned

\* C28: a call of createManifest serializes the manifest only when every
\* entry has been gone through, and when it has returned every entry has
\* been gone through and every copy made: nothing is processed and nothing
\* is copied after that
C28_EndHookCompletesItsWork ==
    \A e \in 1..Len(ends) :
        /\ ends[e].posAtSerialize = Len(EndEntries(e))
        /\ ends[e].returned =>
               /\ ends[e].posAtReturn = Len(EndEntries(e))
               /\ ends[e].pos = ends[e].posAtReturn
               /\ ends[e].copied = ends[e].copiedAtReturn

\* C30: the call of createManifest of a build takes the manifest and the
\* local imports that the call of setupManifest of the same build made,
\* not those a build before it cached
C30_EndConsumesOwnStart ==
    \A e \in 1..Len(ends) : ends[e].consumed = e

====
